---- MODULE Spec2Model ----
(***************************************************************************)
(* Blueprint composition of render-compose (operations.go): merge, copy,   *)
(* conflict detection and reference-aware prefixing of Blueprints.         *)
(*                                                                         *)
(* Blueprints live on a Go heap: a Blueprint holds three slices (backing   *)
(* arrays of Service, Database and EnvVarGroup structs) and two pointers;  *)
(* a Service or EnvVarGroup holds a slice of EnvVar structs, an EnvVar     *)
(* holds pointers to FromDatabase / FromService / string objects, and a    *)
(* Database holds a slice of ReadReplica structs.  Copying a struct copies *)
(* the slice headers and pointers in it, not what they refer to, so the    *)
(* heap is modelled explicitly: address 0 is nil, address i > 0 is the     *)
(* i-th object of its kind.  Strings that the code takes apart (names,     *)
(* the prefix) are sequences of characters.                                *)
(*                                                                         *)
(* A Go function is the composition of its statements: each statement is   *)
(* an operator from frame to frame, a frame being the heap h together with *)
(* the function's local variables (v is the *Blueprint it is building).    *)
(***************************************************************************)
EXTENDS Integers, Sequences, FiniteSets, TLC

VARIABLES
    heap,      \* the Go heap
    base,      \* the first *Blueprint argument (NIL or an address)
    overlay,   \* the second *Blueprint argument of MergeBlueprints
    third,     \* the Blueprint merged last when merges are chained
    pc,        \* "ready", "returned", "written"
    op,        \* the operation that was called
    prefix,    \* the prefix argument of PrefixBlueprint
    overlayPrefix, \* the prefix overlay was given, when both were prefixed
    separator, \* the separator argument of PrefixBlueprintWithSeparator
    nameLists, \* the name lists an operation returned: services, databases,
               \* env groups
    result,    \* the *Blueprint the operation returned
    err,       \* the error it returned: <<>> is nil, <<msg>> an error; for
               \* ValidateBlueprint the list of messages it returned
    panicked,  \* whether it ended in a run-time panic
    before,    \* the heap when the operation was called
    after,     \* the heap when the operation returned
    mut        \* what the caller wrote afterwards

vars == <<heap, base, overlay, third, pc, op, prefix, overlayPrefix, separator,
          nameLists, result, err, panicked, before, after, mut>>

NIL == 0

(***************************************************************************)
(* Strings                                                                 *)
(***************************************************************************)
\* strings.HasPrefix(s, pre)
HasPrefix(s, pre) ==
    /\ Len(pre) <= Len(s)
    /\ SubSeq(s, 1, Len(pre)) = pre

Least(S) == IF S = {} THEN 0 ELSE CHOOSE i \in S : \A j \in S : i <= j

\* strings.Index(s, old), counted from 1: the first position at which old
\* occurs in s, 0 when it does not occur; the empty string occurs at once.
IndexOf(s, old) ==
    Least({i \in 1..(Len(s) - Len(old) + 1) :
              SubSeq(s, i, i + Len(old) - 1) = old})

ReplaceAt(s, i, old, new) ==
    IF i = 0 THEN s
    ELSE SubSeq(s, 1, i - 1) \o new \o SubSeq(s, i + Len(old), Len(s))

\* strings.Replace(s, old, new, 1): the first occurrence of old replaced.
ReplaceFirst(s, old, new) == ReplaceAt(s, IndexOf(s, old), old, new)

\* strings.Join(parts, sep)
RECURSIVE Join(_, _)
Join(parts, sep) ==
    IF parts = <<>> THEN <<>>
    ELSE IF Len(parts) = 1 THEN parts[1]
    ELSE parts[1] \o sep \o Join(Tail(parts), sep)

\* strings.Contains(s, part)
Contains(s, part) == IndexOf(s, part) # 0

(***************************************************************************)
(* The heap                                                                *)
(***************************************************************************)
EmptyHeap ==
    [bp   |-> <<>>,   \* Blueprint structs
     svc  |-> <<>>,   \* backing arrays of []Service
     db   |-> <<>>,   \* backing arrays of []Database
     grp  |-> <<>>,   \* backing arrays of []EnvVarGroup
     env  |-> <<>>,   \* backing arrays of []EnvVar
     rep  |-> <<>>,   \* backing arrays of []ReadReplica
     fdb  |-> <<>>,   \* FromDatabase objects
     fsvc |-> <<>>,   \* FromService objects
     fgrp |-> <<>>,   \* strings that FromGroup points to
     prev |-> <<>>,   \* Previews objects
     exp  |-> <<>>]   \* ints that PreviewsExpireAfterDays points to

Blueprint(svcs, dbs, grps, previews, expire) ==
    [Services |-> svcs, Databases |-> dbs, EnvVarGroups |-> grps,
     Previews |-> previews, PreviewsExpireAfterDays |-> expire]

\* &Blueprint{}
EmptyBlueprint == Blueprint(NIL, NIL, NIL, NIL, NIL)

\* The elements of a slice: a nil slice has none.
Elems(h, k, s) == IF s = NIL THEN <<>> ELSE h[k][s]

ServicesOf(h, bp) == Elems(h, "svc", h.bp[bp].Services)
DatabasesOf(h, bp) == Elems(h, "db", h.bp[bp].Databases)
EnvVarGroupsOf(h, bp) == Elems(h, "grp", h.bp[bp].EnvVarGroups)

\* x := &Blueprint{}: a frame whose v is the new Blueprint.
NewFrame(h) ==
    [h |-> [h EXCEPT !.bp = Append(@, EmptyBlueprint)],
     v |-> Len(h.bp) + 1,
     panic |-> FALSE]

\* f.v.field = a new object of kind k holding val
AllocField(f, k, val, field) ==
    [f EXCEPT !.h = [@ EXCEPT ![k] = Append(@, val),
                              !.bp[f.v][field] = Len(f.h[k]) + 1]]

\* f.v.field = x
SetField(f, field, x) == [f EXCEPT !.h.bp[f.v][field] = x]

\* f.v.field = append(f.v.field, xs...): nothing to append leaves the slice
\* as it is (nil stays nil); a nil slice gets a new backing array; the
\* slice of the Blueprint under construction, whose backing array nothing
\* else refers to, is extended.
AppendField(f, k, field, xs) ==
    IF xs = <<>> THEN f
    ELSE IF f.h.bp[f.v][field] = NIL THEN AllocField(f, k, xs, field)
    ELSE [f EXCEPT !.h[k][f.h.bp[f.v][field]] = @ \o xs]

(***************************************************************************)
(* The structure a pointer leads to, as a value: what a field-by-field     *)
(* comparison (blueprintsEqual of the tests) looks at.  An optional        *)
(* (pointer) field is <<>> when nil and <<v>> otherwise; a nil slice and   *)
(* an empty slice both have no elements.                                   *)
(***************************************************************************)
Opt(h, k, p) == IF p = NIL THEN <<>> ELSE <<h[k][p]>>

EnvVarValue(h, e) ==
    [Key |-> e.Key, Value |-> e.Value,
     FromDatabase |-> Opt(h, "fdb", e.FromDatabase),
     FromService |-> Opt(h, "fsvc", e.FromService),
     FromGroup |-> Opt(h, "fgrp", e.FromGroup)]

EnvVarValues(h, es) == [i \in 1..Len(es) |-> EnvVarValue(h, es[i])]

ServiceValue(h, s) ==
    [Name |-> s.Name, Type |-> s.Type, Runtime |-> s.Runtime,
     EnvVars |-> EnvVarValues(h, Elems(h, "env", s.EnvVars))]

DatabaseValue(h, d) ==
    [Name |-> d.Name, ReadReplicas |-> Elems(h, "rep", d.ReadReplicas)]

EnvVarGroupValue(h, g) ==
    [Name |-> g.Name, EnvVars |-> EnvVarValues(h, Elems(h, "env", g.EnvVars))]

ServiceValues(h, ss) == [i \in 1..Len(ss) |-> ServiceValue(h, ss[i])]
DatabaseValues(h, ds) == [i \in 1..Len(ds) |-> DatabaseValue(h, ds[i])]
EnvVarGroupValues(h, gs) == [i \in 1..Len(gs) |-> EnvVarGroupValue(h, gs[i])]

BlueprintValue(h, bp) ==
    [Services |-> ServiceValues(h, ServicesOf(h, bp)),
     Databases |-> DatabaseValues(h, DatabasesOf(h, bp)),
     EnvVarGroups |-> EnvVarGroupValues(h, EnvVarGroupsOf(h, bp)),
     Previews |-> Opt(h, "prev", h.bp[bp].Previews),
     PreviewsExpireAfterDays |-> Opt(h, "exp", h.bp[bp].PreviewsExpireAfterDays)]

\* What a nil *Blueprint is compared as.
NilValue == <<>>

ValueOf(h, bp) == IF bp = NIL THEN NilValue ELSE BlueprintValue(h, bp)

(***************************************************************************)
(* CopyBlueprint (operations.go:60-92)                                     *)
(***************************************************************************)
\* copied.X = make([]T, len(bp.X)); copy(copied.X, bp.X): a new backing
\* array holding the same struct values, so the slices and pointers inside
\* them are shared with bp.
CopyServices(f, bp) ==
    AllocField(f, "svc", ServicesOf(f.h, bp), "Services")

\* CopyDatabases as it would be if the slice header were assigned:
\* copied.Databases = bp.Databases
CopyDatabasesShared(f, bp) ==
    SetField(f, "Databases", f.h.bp[bp].Databases)

\* CopyDatabases as it would be if the new slice were one element short:
\* copy() then leaves out the last database.
CopyDatabasesShort(f, bp) ==
    AllocField(f, "db",
               SubSeq(DatabasesOf(f.h, bp), 1, Len(DatabasesOf(f.h, bp)) - 1),
               "Databases")

CopyDatabases(f, bp) ==
    AllocField(f, "db", DatabasesOf(f.h, bp), "Databases")

CopyEnvVarGroups(f, bp) ==
    AllocField(f, "grp", EnvVarGroupsOf(f.h, bp), "EnvVarGroups")

\* if bp.Previews != nil { previews := *bp.Previews; copied.Previews = &previews }
CopyPreviews(f, bp) ==
    IF f.h.bp[bp].Previews = NIL THEN f
    ELSE AllocField(f, "prev", f.h.prev[f.h.bp[bp].Previews], "Previews")

\* The copy of the expiry as it would be if it were left out.
CopyPreviewsExpireAfterDaysSkipped(f, bp) == f

\* if bp.PreviewsExpireAfterDays != nil { expireDays := *bp...; copied... = &expireDays }
CopyPreviewsExpireAfterDays(f, bp) ==
    IF f.h.bp[bp].PreviewsExpireAfterDays = NIL THEN f
    ELSE AllocField(f, "exp", f.h.exp[f.h.bp[bp].PreviewsExpireAfterDays],
                    "PreviewsExpireAfterDays")

CopyBlueprint(h, bp) ==
    IF bp = NIL THEN NewFrame(h)
    ELSE CopyPreviewsExpireAfterDays(
            CopyPreviews(
                CopyEnvVarGroups(
                    CopyDatabases(
                        CopyServices(NewFrame(h), bp), bp), bp), bp), bp)

(***************************************************************************)
(* FindConflicts (operations.go:159-200)                                   *)
(***************************************************************************)
\* The keys of a map[string]bool filled with x.Name for every x of xs.
NamesOf(xs) == {xs[i].Name : i \in 1..Len(xs)}

\* fmt.Sprintf("<kind> name conflict: %s", name): the format's literal text
\* is one token, followed by the characters of the name.
ConflictMessage(kind, name) == <<kind>> \o name

\* KindConflicts as it would be if each new message were put in front.
RECURSIVE KindConflictsReversed(_, _, _)
KindConflictsReversed(kind, baseNames, xs) ==
    IF xs = <<>> THEN <<>>
    ELSE KindConflictsReversed(kind, baseNames, Tail(xs))
         \o (IF Head(xs).Name \in baseNames
             THEN <<ConflictMessage(kind, Head(xs).Name)>> ELSE <<>>)

\* One loop over overlay's entries of a kind: a message for each entry whose
\* name is a key of the map built from base's entries, in overlay's order.
RECURSIVE KindConflicts(_, _, _)
KindConflicts(kind, baseNames, xs) ==
    IF xs = <<>> THEN <<>>
    ELSE (IF Head(xs).Name \in baseNames
          THEN <<ConflictMessage(kind, Head(xs).Name)>> ELSE <<>>)
         \o KindConflicts(kind, baseNames, Tail(xs))

\* FindConflicts as it would be with one map of base's names of all kinds.
AllNamesOf(h, b) ==
    NamesOf(ServicesOf(h, b)) \cup NamesOf(DatabasesOf(h, b))
    \cup NamesOf(EnvVarGroupsOf(h, b))

\* FindConflicts as it would be with the loop over the services only.
FindConflictsOfServices(h, b, o) ==
    IF b = NIL \/ o = NIL THEN <<>>
    ELSE KindConflicts("service name conflict: ",
                       NamesOf(ServicesOf(h, b)), ServicesOf(h, o))

FindConflictsAnyKind(h, b, o) ==
    IF b = NIL \/ o = NIL THEN <<>>
    ELSE KindConflicts("service name conflict: ",
                       AllNamesOf(h, b), ServicesOf(h, o))
         \o KindConflicts("database name conflict: ",
                          AllNamesOf(h, b), DatabasesOf(h, o))
         \o KindConflicts("environment group name conflict: ",
                          AllNamesOf(h, b), EnvVarGroupsOf(h, o))

FindConflicts(h, b, o) ==
    IF b = NIL \/ o = NIL THEN <<>>
    ELSE KindConflicts("service name conflict: ",
                       NamesOf(ServicesOf(h, b)), ServicesOf(h, o))
         \o KindConflicts("database name conflict: ",
                          NamesOf(DatabasesOf(h, b)), DatabasesOf(h, o))
         \o KindConflicts("environment group name conflict: ",
                          NamesOf(EnvVarGroupsOf(h, b)), EnvVarGroupsOf(h, o))

(***************************************************************************)
(* GetExternalReferences (operations.go:348-420).  The maps are sets of    *)
(* names; ranging over a map visits each key once, in an order the         *)
(* language leaves open.                                                   *)
(***************************************************************************)
Range(xs) == {xs[i] : i \in DOMAIN xs}

\* The existing-name map of the services as it would be if it held the
\* names of every kind.
ExistingNamesAnyKind(h, bp) ==
    {x.Name : x \in Range(ServicesOf(h, bp)) \cup Range(DatabasesOf(h, bp))
                      \cup Range(EnvVarGroupsOf(h, bp))}

ExistingServiceNames(h, bp) == {x.Name : x \in Range(ServicesOf(h, bp))}
ExistingDatabaseNames(h, bp) == {x.Name : x \in Range(DatabasesOf(h, bp))}
ExistingEnvGroupNames(h, bp) == {x.Name : x \in Range(EnvVarGroupsOf(h, bp))}

\* The EnvVars checkEnvVarReferences is called with: the services', then
\* the env groups'.
CheckedEnvVars(h, bp) ==
    UNION {Range(Elems(h, "env", x.EnvVars)) :
              x \in Range(ServicesOf(h, bp)) \cup Range(EnvVarGroupsOf(h, bp))}

ExternalDatabases(h, bp) ==
    {h.fdb[e.FromDatabase].Name :
        e \in {e \in CheckedEnvVars(h, bp) : e.FromDatabase # NIL}}
    \ ExistingDatabaseNames(h, bp)

ExternalServices(h, bp) ==
    {h.fsvc[e.FromService].Name :
        e \in {e \in CheckedEnvVars(h, bp) : e.FromService # NIL}}
    \ ExistingServiceNames(h, bp)

ExternalEnvGroups(h, bp) ==
    {h.fgrp[e.FromGroup] :
        e \in {e \in CheckedEnvVars(h, bp) : e.FromGroup # NIL}}
    \ ExistingEnvGroupNames(h, bp)

\* for name := range m { xs = append(xs, name) }: the lists it can build.
Ranged(m) ==
    {xs \in [1..Cardinality(m) -> m] :
        \A i, j \in 1..Cardinality(m) : xs[i] = xs[j] => i = j}

\* The results GetExternalReferences can return: services, databases,
\* envGroups.
GetExternalReferences(h, bp) ==
    IF bp = NIL THEN {<<<<>>, <<>>, <<>>>>}
    ELSE Ranged(ExternalServices(h, bp)) \X Ranged(ExternalDatabases(h, bp))
         \X Ranged(ExternalEnvGroups(h, bp))

(***************************************************************************)
(* ValidateBlueprint (operations.go:95-156)                                *)
(***************************************************************************)
\* One "Check for duplicate ... names" loop as it would be if a name were
\* reported at its first repetition only.
RECURSIVE DuplicatesOnce(_, _, _, _)
DuplicatesOnce(text, xs, i, seen) ==
    IF i > Len(xs) THEN <<>>
    ELSE (IF xs[i].Name \in seen /\ \A j \in 1..(i - 1) :
                 xs[j].Name = xs[i].Name =>
                     \A k \in 1..(j - 1) : xs[k].Name # xs[i].Name
          THEN <<<<text>> \o xs[i].Name>> ELSE <<>>)
         \o DuplicatesOnce(text, xs, i + 1, seen \cup {xs[i].Name})

\* One "Check for duplicate ... names" loop, from entry i on, seen being
\* the keys of the map so far: a message for an entry whose name is in the
\* map, then the name is put in the map.
RECURSIVE Duplicates(_, _, _, _)
Duplicates(text, xs, i, seen) ==
    IF i > Len(xs) THEN <<>>
    ELSE (IF xs[i].Name \in seen THEN <<<<text>> \o xs[i].Name>> ELSE <<>>)
         \o Duplicates(text, xs, i + 1, seen \cup {xs[i].Name})

\* if x.Name == "" { errors = append(errors, "... missing name") }
MissingName(text, x) == IF x.Name = <<>> THEN <<<<text>>>> ELSE <<>>

\* if service.Type == "" { ... "service %s missing type" }
MissingType(x) ==
    IF x.Type = "" THEN <<<<"service ">> \o x.Name \o <<" missing type">>>>
    ELSE <<>>

\* The runtime check as it would be without the exception for keyvalue.
MissingRuntimeAnyType(x) ==
    IF x.Runtime = <<>>
    THEN <<<<"service ">> \o x.Name \o <<" missing runtime">>>>
    ELSE <<>>

\* if service.Runtime == nil && service.Type != ServiceTypeKeyValue { ... }
MissingRuntime(x) ==
    IF x.Runtime = <<>> /\ x.Type # "keyvalue"
    THEN <<<<"service ">> \o x.Name \o <<" missing runtime">>>>
    ELSE <<>>

\* The three checks of a service as they would be if they were chained
\* with else.
ServiceDefectsFirstOnly(x) ==
    IF MissingName("service missing name", x) # <<>>
    THEN MissingName("service missing name", x)
    ELSE IF MissingType(x) # <<>> THEN MissingType(x)
    ELSE MissingRuntime(x)

\* The body of "for _, service := range bp.Services" of the required
\* fields check.
ServiceDefects(x) ==
    MissingName("service missing name", x) \o MissingType(x)
    \o MissingRuntime(x)

RECURSIVE ServicesDefects(_, _)
ServicesDefects(xs, i) ==
    IF i > Len(xs) THEN <<>>
    ELSE ServiceDefects(xs[i]) \o ServicesDefects(xs, i + 1)

\* for _, x := range xs { if x.Name == "" { ... } }
RECURSIVE MissingNames(_, _, _)
MissingNames(text, xs, i) ==
    IF i > Len(xs) THEN <<>>
    ELSE MissingName(text, xs[i]) \o MissingNames(text, xs, i + 1)

ValidateBlueprint(h, bp) ==
    IF bp = NIL THEN <<<<"blueprint is nil">>>>
    ELSE Duplicates("duplicate service name: ", ServicesOf(h, bp), 1, {})
         \o Duplicates("duplicate database name: ", DatabasesOf(h, bp), 1, {})
         \o Duplicates("duplicate environment group name: ",
                       EnvVarGroupsOf(h, bp), 1, {})
         \o ServicesDefects(ServicesOf(h, bp), 1)
         \o MissingNames("database missing name", DatabasesOf(h, bp), 1)
         \o MissingNames("environment group missing name",
                         EnvVarGroupsOf(h, bp), 1)

(***************************************************************************)
(* MergeBlueprints (operations.go:11-57)                                   *)
(* The result is [h, v, err]: the heap after the call, the returned        *)
(* *Blueprint and the returned error (<<>> is nil, <<msg>> an error).      *)
(***************************************************************************)
\* MergeError as it would be if only the first conflict were reported.
MergeErrorFirst(conflicts) ==
    <<"merge conflicts found: ">> \o Head(conflicts)
    \o <<". Use PrefixBlueprint() to avoid name conflicts before merging">>

\* fmt.Errorf("merge conflicts found: %s. Use ...", strings.Join(.., ", "))
MergeError(conflicts) ==
    <<"merge conflicts found: ">> \o Join(conflicts, <<", ">>)
    \o <<". Use PrefixBlueprint() to avoid name conflicts before merging">>

\* MergeServices as it would be with overlay's entries put first.
MergeServicesOverlayFirst(f, b, o) ==
    AllocField(f, "svc", ServicesOf(f.h, o) \o ServicesOf(f.h, b), "Services")

\* MergeServices as it would be if it appended to base's own slice:
\* base.Services = append(base.Services, overlay.Services...)
\* merged.Services = base.Services
MergeServicesInPlace(f, b, o) ==
    IF f.h.bp[b].Services = NIL
    THEN AllocField(f, "svc", ServicesOf(f.h, o), "Services")
    ELSE SetField([f EXCEPT !.h.svc[f.h.bp[b].Services] = @ \o ServicesOf(f.h, o)],
                  "Services", f.h.bp[b].Services)

\* merged.Services = append(merged.Services, base.Services...)
\* merged.Services = append(merged.Services, overlay.Services...)
MergeServices(f, b, o) ==
    AppendField(AppendField(f, "svc", "Services", ServicesOf(f.h, b)),
                "svc", "Services", ServicesOf(f.h, o))

MergeDatabases(f, b, o) ==
    AppendField(AppendField(f, "db", "Databases", DatabasesOf(f.h, b)),
                "db", "Databases", DatabasesOf(f.h, o))

\* MergeEnvVarGroups as it would be with overlay's entries put first.
MergeEnvVarGroupsOverlayFirst(f, b, o) ==
    AllocField(f, "grp", EnvVarGroupsOf(f.h, o) \o EnvVarGroupsOf(f.h, b),
               "EnvVarGroups")

MergeEnvVarGroups(f, b, o) ==
    AppendField(AppendField(f, "grp", "EnvVarGroups", EnvVarGroupsOf(f.h, b)),
                "grp", "EnvVarGroups", EnvVarGroupsOf(f.h, o))

\* OverlayWins as it would be if base's setting were kept when it is set.
BaseWins(f, b, o, field) ==
    SetField(f, field,
             IF f.h.bp[b][field] # NIL THEN f.h.bp[b][field]
             ELSE f.h.bp[o][field])

\* if overlay.X != nil { merged.X = overlay.X } else { merged.X = base.X }
OverlayWins(f, b, o, field) ==
    SetField(f, field,
             IF f.h.bp[o][field] # NIL THEN f.h.bp[o][field]
             ELSE f.h.bp[b][field])

\* return x, nil
Return(f) == [h |-> f.h, v |-> f.v, err |-> <<>>]

\* return nil, err
Fail(h, msg) == [h |-> h, v |-> NIL, err |-> <<msg>>]

\* The merge proper, from "merged := &Blueprint{}" on.
Merged(h, b, o) ==
    OverlayWins(
        OverlayWins(
            MergeEnvVarGroups(
                MergeDatabases(
                    MergeServices(NewFrame(h), b, o), b, o), b, o),
            b, o, "Previews"),
        b, o, "PreviewsExpireAfterDays")

\* MergeBlueprints as it would be if a nil argument made the result empty.
MergeNilAsEmpty(h, b, o) ==
    IF b = NIL \/ o = NIL THEN Return(NewFrame(h))
    ELSE IF Len(FindConflicts(h, b, o)) > 0
         THEN Fail(h, MergeError(FindConflicts(h, b, o)))
         ELSE Return(Merged(h, b, o))

\* MergeBlueprints as it would be without lines 22-26, the conflict check.
MergeUnchecked(h, b, o) ==
    IF b = NIL /\ o = NIL THEN Return(NewFrame(h))
    ELSE IF b = NIL THEN Return(CopyBlueprint(h, o))
    ELSE IF o = NIL THEN Return(CopyBlueprint(h, b))
    ELSE Return(Merged(h, b, o))

MergeBlueprints(h, b, o) ==
    IF b = NIL /\ o = NIL THEN Return(NewFrame(h))
    ELSE IF b = NIL THEN Return(CopyBlueprint(h, o))
    ELSE IF o = NIL THEN Return(CopyBlueprint(h, b))
    ELSE IF Len(FindConflicts(h, b, o)) > 0
         THEN Fail(h, MergeError(FindConflicts(h, b, o)))
         ELSE Return(Merged(h, b, o))

\* Chained merges, by a caller that checks the error of each call and
\* stops at the first one.
\* ab, err := MergeBlueprints(a, b); if err != nil { return nil, err }
\* return MergeBlueprints(ab, c)
ThenMergeWith(r, c) ==
    IF r.err # <<>> THEN r ELSE MergeBlueprints(r.h, r.v, c)

MergeLeft(h, a, b, c) == ThenMergeWith(MergeBlueprints(h, a, b), c)

\* bc, err := MergeBlueprints(b, c); if err != nil { return nil, err }
\* return MergeBlueprints(a, bc)
ThenMergeInto(a, r) ==
    IF r.err # <<>> THEN r ELSE MergeBlueprints(r.h, a, r.v)

MergeRight(h, a, b, c) == ThenMergeInto(a, MergeBlueprints(h, b, c))

(***************************************************************************)
(* PrefixBlueprint (operations.go:204-318)                                 *)
(* The result is [h, v, panic]: the heap after the call, the returned      *)
(* *Blueprint, and whether the call ended in a run-time panic (a slice     *)
(* expression out of range) instead of returning.                          *)
(***************************************************************************)
\* NameMap as it would be if the prefix were put after the name.
NameMapSuffix(names, pre) == [n \in names |-> n \o pre]

\* serviceNameMap[oldName] = prefix + oldName, for every name collected.
NameMap(names, pre) == [n \in names |-> pre \o n]

\* The three maps of old names to new names, from prefixed's entries.
NameMaps(f, pre) ==
    [svc |-> NameMap(NamesOf(ServicesOf(f.h, f.v)), pre),
     db  |-> NameMap(NamesOf(DatabasesOf(f.h, f.v)), pre),
     grp |-> NameMap(NamesOf(EnvVarGroupsOf(f.h, f.v)), pre)]

\* Renamed as it would be if the new name were never taken.
NotRenamed(m, name) == name

\* if newName, exists := m[name]; exists { name = newName }
Renamed(m, name) == IF name \in DOMAIN m THEN m[name] ELSE name

RenamedAll(xs, m) == [i \in 1..Len(xs) |-> [xs[i] EXCEPT !.Name = Renamed(m, @)]]

\* The "Update ... names" loops as they would be without the one over the
\* databases.
RenameEntitiesButDatabases(f, k, field, m) ==
    IF k = "db" \/ f.h.bp[f.v][field] = NIL THEN f
    ELSE [f EXCEPT !.h[k][f.h.bp[f.v][field]] = RenamedAll(@, m)]

\* The three "Update ... names" loops, each over prefixed's own array.
RenameEntities(f, k, field, m) ==
    IF f.h.bp[f.v][field] = NIL THEN f
    ELSE [f EXCEPT !.h[k][f.h.bp[f.v][field]] = RenamedAll(@, m)]

\* The body of updateEnvVarReferences for the EnvVar e: each reference
\* that is set is written through its pointer.
\* UpdateDatabaseReference as it would be if it looked the name up among
\* the service names.
UpdateDatabaseReferenceAnyKind(f, e, maps) ==
    IF e.FromDatabase = NIL THEN f
    ELSE [f EXCEPT !.h.fdb[e.FromDatabase].Name = Renamed(maps.svc, @)]

UpdateDatabaseReference(f, e, maps) ==
    IF e.FromDatabase = NIL THEN f
    ELSE [f EXCEPT !.h.fdb[e.FromDatabase].Name = Renamed(maps.db, @)]

\* The update of a service reference as it would be if it left every
\* reference alone.
UpdateServiceReferenceNever(f, e, maps) == f

UpdateServiceReference(f, e, maps) ==
    IF e.FromService = NIL THEN f
    ELSE [f EXCEPT !.h.fsvc[e.FromService].Name = Renamed(maps.svc, @)]

UpdateGroupReference(f, e, maps) ==
    IF e.FromGroup = NIL THEN f
    ELSE [f EXCEPT !.h.fgrp[e.FromGroup] = Renamed(maps.grp, @)]

UpdateEnvVar(f, e, maps) ==
    UpdateGroupReference(
        UpdateServiceReference(
            UpdateDatabaseReference(f, e, maps), e, maps), e, maps)

\* updateEnvVarReferences(envVars): for i := range envVars, from i on.
RECURSIVE UpdateEnvVarReferences(_, _, _, _)
UpdateEnvVarReferences(f, s, i, maps) ==
    IF s = NIL \/ i > Len(f.h.env[s]) THEN f
    ELSE UpdateEnvVarReferences(UpdateEnvVar(f, f.h.env[s][i], maps),
                                s, i + 1, maps)

\* for i := range prefixed.Services { updateEnvVarReferences(...[i].EnvVars) }
RECURSIVE UpdateServices(_, _, _)
UpdateServices(f, i, maps) ==
    IF i > Len(ServicesOf(f.h, f.v)) THEN f
    ELSE UpdateServices(
            UpdateEnvVarReferences(f, ServicesOf(f.h, f.v)[i].EnvVars, 1, maps),
            i + 1, maps)

\* for i := range prefixed.EnvVarGroups { updateEnvVarReferences(...) }
RECURSIVE UpdateEnvVarGroups(_, _, _)
UpdateEnvVarGroups(f, i, maps) ==
    IF i > Len(EnvVarGroupsOf(f.h, f.v)) THEN f
    ELSE UpdateEnvVarGroups(
            UpdateEnvVarReferences(f, EnvVarGroupsOf(f.h, f.v)[i].EnvVars, 1, maps),
            i + 1, maps)

\* db.Name[:len(db.Name)-len(prefix)], evaluated when it is in range.
OldDBName(name, pre) == SubSeq(name, 1, Len(name) - Len(pre))

\* The replica loop's body, for a replica name and the database's name.
RenameReplica(replica, dbName, pre) ==
    IF HasPrefix(replica, OldDBName(dbName, pre))
    THEN ReplaceFirst(replica, OldDBName(dbName, pre), dbName)
    ELSE replica

\* for j := range db.ReadReplicas, from j on, for the database d.
RECURSIVE UpdateReplicas(_, _, _, _)
UpdateReplicas(f, d, j, pre) ==
    IF f.panic \/ d.ReadReplicas = NIL \/ j > Len(f.h.rep[d.ReadReplicas])
    THEN f
    ELSE IF Len(d.Name) - Len(pre) < 0
    THEN [f EXCEPT !.panic = TRUE]
    ELSE UpdateReplicas(
            [f EXCEPT !.h.rep[d.ReadReplicas][j].Name =
                          RenameReplica(@, d.Name, pre)],
            d, j + 1, pre)

\* for i := range prefixed.Databases, from i on.
RECURSIVE UpdateDatabases(_, _, _)
UpdateDatabases(f, i, pre) ==
    IF f.panic \/ i > Len(DatabasesOf(f.h, f.v)) THEN f
    ELSE UpdateDatabases(UpdateReplicas(f, DatabasesOf(f.h, f.v)[i], 1, pre),
                         i + 1, pre)

\* From "Update service names" to the end, with the maps already built.
Rewritten(f, maps, pre) ==
    UpdateDatabases(
        UpdateEnvVarGroups(
            UpdateServices(
                RenameEntities(
                    RenameEntities(
                        RenameEntities(f, "svc", "Services", maps.svc),
                        "db", "Databases", maps.db),
                    "grp", "EnvVarGroups", maps.grp),
                1, maps),
            1, maps),
        1, pre)

\* From "prefixed := CopyBlueprint(bp)" on.
Prefixed(f, pre) == Rewritten(f, NameMaps(f, pre), pre)

\* A call that panicked returns nothing.
Outcome(f) == [h |-> f.h, v |-> IF f.panic THEN NIL ELSE f.v, panic |-> f.panic]

\* PrefixBlueprint as it would be if a nil Blueprint were handed back.
PrefixBlueprintNilForNil(h, bp, pre) ==
    IF bp = NIL THEN [h |-> h, v |-> NIL, panic |-> FALSE]
    ELSE IF pre = <<>> THEN Outcome(CopyBlueprint(h, bp))
    ELSE Outcome(Prefixed(CopyBlueprint(h, bp), pre))

PrefixBlueprint(h, bp, pre) ==
    IF bp = NIL \/ pre = <<>>
    THEN Outcome(CopyBlueprint(h, bp))
    ELSE Outcome(Prefixed(CopyBlueprint(h, bp), pre))

\* PrefixBlueprintWithSeparator (operations.go:321-326)
\* The separator as it would be without the default.
GivenSeparator(sep) == sep

\* if separator == "" { separator = "-" }
DefaultSeparator(sep) == IF sep = <<>> THEN <<"-">> ELSE sep

PrefixBlueprintWithSeparator(h, bp, pre, sep) ==
    PrefixBlueprint(h, bp, pre \o DefaultSeparator(sep))

(***************************************************************************)
(* Building the arguments with the package's builders (resources.go and    *)
(* the service builders).  A builder frame adds to the heap h and the      *)
(* Blueprint v: given, the []EnvVar a caller made once and hands to every  *)
(* WithEnvVars call; envs, the EnvVars of the call at hand; slice, the     *)
(* slice the builder at hand has put together.                             *)
(***************************************************************************)
EnvVar(key, value, fromDb, fromSvc, fromGrp) ==
    [Key |-> key, Value |-> value, FromDatabase |-> fromDb,
     FromService |-> fromSvc, FromGroup |-> fromGrp]

\* Env(key, value)
Env == EnvVar(<<"KEY">>, <<"value">>, NIL, NIL, NIL)

\* envs = append(envs, Env(key, value))
AddEnv(f) == [f EXCEPT !.envs = Append(@, Env)]

\* envs = append(envs, EnvFromDatabase(key, name, property))
EnvFromDatabase(f, name) ==
    [f EXCEPT !.h.fdb = Append(@, [Name |-> name, Property |-> "connectionString"]),
              !.envs = Append(@, EnvVar(<<"KEY">>, <<>>, Len(f.h.fdb) + 1, NIL, NIL))]

\* envs = append(envs, EnvFromService(key, name, serviceType, property))
EnvFromService(f, name) ==
    [f EXCEPT !.h.fsvc = Append(@, [Name |-> name, Type |-> "web"]),
              !.envs = Append(@, EnvVar(<<"KEY">>, <<>>, NIL, Len(f.h.fsvc) + 1, NIL))]

\* envs = append(envs, EnvFromGroup(name))
EnvFromGroup(f, name) ==
    [f EXCEPT !.h.fgrp = Append(@, name),
              !.envs = Append(@, EnvVar(<<>>, <<>>, NIL, NIL, Len(f.h.fgrp) + 1))]

\* One EnvVar from its description [kind, name].
NewEnvVar(f, d) ==
    CASE d.kind = "db"  -> EnvFromDatabase(f, d.name)
      [] d.kind = "svc" -> EnvFromService(f, d.name)
      [] d.kind = "grp" -> EnvFromGroup(f, d.name)
      [] OTHER          -> AddEnv(f)

RECURSIVE NewEnvVars(_, _, _)
NewEnvVars(f, descs, i) ==
    IF i > Len(descs) THEN f
    ELSE NewEnvVars(NewEnvVar(f, descs[i]), descs, i + 1)

\* given := []EnvVar{...}, when the caller shares one list.
KeepGiven(f) == [f EXCEPT !.given = f.envs]

Given(f, d) ==
    IF d.share THEN KeepGiven(NewEnvVars(f, d.envs, 1)) ELSE f

\* The arguments of the next WithEnvVars call: the shared list, or EnvVars
\* made by fresh helper calls.
EnvVarsFor(f, d) ==
    IF d.share THEN [f EXCEPT !.envs = f.given]
    ELSE NewEnvVars([f EXCEPT !.envs = <<>>], d.envs, 1)

\* x.EnvVars = append(x.EnvVars, envVars...) on a builder whose EnvVars is
\* nil (NewWebService) or empty (NewEnvVarGroup): a new backing array that
\* holds copies of the EnvVar structs, pointers included.
WithEnvVars(f, wasNil) ==
    IF f.envs = <<>> /\ wasNil THEN [f EXCEPT !.slice = NIL]
    ELSE [f EXCEPT !.h.env = Append(@, f.envs), !.slice = Len(f.h.env) + 1]

\* bp.Services = append(bp.Services, *svc.ToService())
ToService(f, name) ==
    AppendField(f, "svc", "Services",
                <<[Name |-> name, Type |-> "web", Runtime |-> <<"node">>,
                   EnvVars |-> f.slice]>>)

\* bp.WithServices(NewWebService(name, runtime).WithEnvVars(...), ...)
RECURSIVE WithServices(_, _, _)
WithServices(f, d, i) ==
    IF i > Len(d.svcs) THEN f
    ELSE WithServices(ToService(WithEnvVars(EnvVarsFor(f, d), TRUE), d.svcs[i]),
                      d, i + 1)

\* db.WithReadReplicas(names...): append to the nil db.ReadReplicas.
WithReadReplicas(f, names) ==
    IF names = <<>> THEN [f EXCEPT !.slice = NIL]
    ELSE [f EXCEPT !.h.rep = Append(@, [i \in 1..Len(names) |-> [Name |-> names[i]]]),
                   !.slice = Len(f.h.rep) + 1]

\* bp.Databases = append(bp.Databases, *db), db being NewDatabase(name)
NewDatabase(f, name) ==
    AppendField(f, "db", "Databases",
                <<[Name |-> name, ReadReplicas |-> f.slice]>>)

\* bp.WithDatabases(NewDatabase(name).WithReadReplicas(...), ...)
RECURSIVE WithDatabases(_, _, _)
WithDatabases(f, d, i) ==
    IF i > Len(d.dbs) THEN f
    ELSE WithDatabases(NewDatabase(WithReadReplicas(f, d.reps), d.dbs[i]),
                       d, i + 1)

\* bp.EnvVarGroups = append(bp.EnvVarGroups, *group)
NewEnvVarGroup(f, name) ==
    AppendField(f, "grp", "EnvVarGroups",
                <<[Name |-> name, EnvVars |-> f.slice]>>)

\* bp.WithEnvVarGroups(NewEnvVarGroup(name).WithEnvVars(...), ...)
RECURSIVE WithEnvVarGroups(_, _, _)
WithEnvVarGroups(f, d, i) ==
    IF i > Len(d.grps) THEN f
    ELSE WithEnvVarGroups(
            NewEnvVarGroup(WithEnvVars(EnvVarsFor(f, d), FALSE), d.grps[i]),
            d, i + 1)

\* bp.Previews = &Previews{Generation: string(generation)}
SetPreviews(f, d) ==
    IF d.previews >= 1
    THEN AllocField(f, "prev", [Generation |-> d.generation], "Previews")
    ELSE f

\* if len(expireAfterDays) > 0 { bp.PreviewsExpireAfterDays = &expireAfterDays[0] }
SetPreviewsExpireAfterDays(f, d) ==
    IF d.previews >= 2
    THEN AllocField(f, "exp", d.days, "PreviewsExpireAfterDays")
    ELSE f

\* bp.WithPreviews(d.generation, d.days...): d.previews = 0 is no call, 1
\* the call without days, 2 the call with days.
WithPreviews(f, d) == SetPreviewsExpireAfterDays(SetPreviews(f, d), d)

\* &Blueprint{Services: []Service{}, Databases: []Database{}, EnvVarGroups: ..}
EmptySlices(f) ==
    AllocField(AllocField(AllocField(f, "svc", <<>>, "Services"),
                          "db", <<>>, "Databases"),
               "grp", <<>>, "EnvVarGroups")

Builder(f) ==
    [h |-> f.h, v |-> f.v, given |-> <<>>, envs |-> <<>>, slice |-> NIL]

\* A Blueprint from its description d: the names of its services, databases
\* and env groups, the EnvVars every service and env group is given, the
\* replicas every database is given, its preview settings, and whether
\* the same EnvVar values are handed to every WithEnvVars call (share).
NewBlueprint(h, d) ==
    WithPreviews(
        WithEnvVarGroups(
            WithDatabases(
                WithServices(
                    Given(Builder(EmptySlices(NewFrame(h))), d),
                    d, 1),
                d, 1),
            d, 1),
        d)

\* An argument of type *Blueprint: nil, or a Blueprint as described.
NewArgument(h, d) ==
    IF d.nil THEN [h |-> h, v |-> NIL] ELSE NewBlueprint(h, d)

(***************************************************************************)
(* The inputs                                                              *)
(***************************************************************************)
\* The most services, databases and env groups, together, in a Blueprint.
MaxEntities == 2
\* The most EnvVars given to a service or env group.
MaxEnvVars == 1
\* The most read replicas given to a database.
MaxReplicas == 1

SeqsUpTo(S, n) == UNION {[1..k -> S] : k \in 0..n}

\* Names: chosen so that prefix + name can be another name of the set.
Names == {<<>>, <<"a">>, <<"b">>, <<"b", "a">>}
Prefixes == {<<>>, <<"b">>, <<"b", "a">>}

\* The lists of service, database and env-group names of a Blueprint.
Skeletons(S) ==
    UNION {[1..ns -> S] \X [1..nd -> S] \X [1..ng -> S] :
              <<ns, nd, ng>> \in {t \in (0..MaxEntities) \X (0..MaxEntities)
                                                         \X (0..MaxEntities) :
                                     t[1] + t[2] + t[3] <= MaxEntities}}

EnvDescs(S) ==
    {[kind |-> "lit", name |-> <<>>]}
    \cup [kind : {"db", "svc", "grp"}, name : S]

Description(sk, envs, reps, previews, share) ==
    [nil |-> FALSE, svcs |-> sk[1], dbs |-> sk[2], grps |-> sk[3],
     envs |-> envs, reps |-> reps, previews |-> previews, share |-> share,
     generation |-> "automatic", days |-> 3]

NoBlueprint == [nil |-> TRUE]

\* The Blueprints given to PrefixBlueprint.
PrefixInputs ==
    {NoBlueprint} \cup
    {Description(sk, envs, reps, previews, share) :
        sk \in Skeletons(Names),
        envs \in SeqsUpTo(EnvDescs(Names \ {<<>>}), MaxEnvVars),
        reps \in SeqsUpTo(Names \ {<<>>}, MaxReplicas),
        previews \in {0, 2},
        share \in BOOLEAN}

\* The Blueprints given to MergeBlueprints: every service and env group
\* holds a database reference and every database a replica.
MergeNames == {<<"a">>, <<"b">>}

MergeInputs ==
    {NoBlueprint} \cup
    {Description(sk, <<[kind |-> "db", name |-> <<"a">>]>>, <<<<"a">>>>,
                 previews, FALSE) :
        sk \in Skeletons(MergeNames), previews \in 0..2}

\* The second argument of MergeBlueprints: its preview settings, when it
\* sets them, differ from those of the first.
OverlaySettings(d) ==
    IF d.nil THEN d ELSE [d EXCEPT !.generation = "none", !.days = 5]

OverlayInputs == {OverlaySettings(d) : d \in MergeInputs}

(***************************************************************************)
(* The program: the arguments are built, one operation is called on them,  *)
(* and its caller may then write through the pointers it holds.            *)
(***************************************************************************)
StartOf(h, b, o, c) ==
    /\ third = c
    /\ heap = h
    /\ base = b
    /\ overlay = o
    /\ before = h
    /\ after = h
    /\ pc = "ready"
    /\ op = "none"
    /\ prefix = <<>>
    /\ overlayPrefix = <<>>
    /\ separator = <<>>
    /\ nameLists = <<<<>>, <<>>, <<>>>>
    /\ result = NIL
    /\ err = <<>>
    /\ panicked = FALSE
    /\ mut = <<>>

Start(h, b, o) == StartOf(h, b, o, NIL)

\* The arguments once each is built: a is the frame of the first, c of the
\* second, built on the heap the first left.
StartWith(a, c) == Start(c.h, a.v, c.v)

StartAfter(a, d) == StartWith(a, NewArgument(a.h, d))

InitPrefix ==
    \E d \in PrefixInputs :
        StartWith(NewArgument(EmptyHeap, d), [h |-> NewArgument(EmptyHeap, d).h, v |-> NIL])

InitMerge ==
    \E d1 \in MergeInputs, d2 \in OverlayInputs :
        StartAfter(NewArgument(EmptyHeap, d1), d2)

PrefixReturned(r, p) ==
    /\ heap' = r.h
    /\ after' = r.h
    /\ result' = r.v
    /\ panicked' = r.panic
    /\ prefix' = p

\* result := PrefixBlueprint(base, p)
CallPrefixBlueprint ==
    /\ pc = "ready"
    /\ \E p \in Prefixes : PrefixReturned(PrefixBlueprint(heap, base, p), p)
    /\ before' = heap
    /\ op' = "prefix"
    /\ pc' = "returned"
    /\ UNCHANGED <<third, separator, nameLists, base, overlay, overlayPrefix,
                   err, mut>>

MergeReturned(r) ==
    /\ heap' = r.h
    /\ after' = r.h
    /\ result' = r.v
    /\ err' = r.err

\* result, err := MergeBlueprints(base, overlay)
CallMergeBlueprints ==
    /\ pc = "ready"
    /\ MergeReturned(MergeBlueprints(heap, base, overlay))
    /\ before' = heap
    /\ op' = "merge"
    /\ pc' = "returned"
    /\ UNCHANGED <<third, separator, nameLists, base, overlay, prefix,
                   overlayPrefix, panicked, mut>>

CopyReturned(r) ==
    /\ heap' = r.h
    /\ after' = r.h
    /\ result' = r.v

\* result := CopyBlueprint(base)
CallCopyBlueprint ==
    /\ pc = "ready"
    /\ CopyReturned(CopyBlueprint(heap, base))
    /\ before' = heap
    /\ op' = "copy"
    /\ pc' = "returned"
    /\ UNCHANGED <<third, separator, nameLists, base, overlay, prefix,
                   overlayPrefix, err, panicked, mut>>

(***************************************************************************)
(* After a successful MergeBlueprints, or after CopyBlueprint, the caller  *)
(* holds the arguments and the result, and writes through one of them.     *)
(***************************************************************************)
Held(via) ==
    CASE via = "base" -> base
      [] via = "overlay" -> overlay
      [] OTHER -> result

Holders == {"base", "overlay", "result"}

CanWrite(via) ==
    /\ pc = "returned"
    /\ op \in {"merge", "copy"}
    /\ err = <<>>
    /\ Held(via) # NIL

Written(h, what, via) ==
    /\ heap' = h
    /\ mut' = <<what, via>>
    /\ pc' = "written"
    /\ UNCHANGED <<third, separator, nameLists, base, overlay, op, prefix,
                   overlayPrefix, result, err, panicked, before, after>>

\* The EnvVars slice of the i-th service of bp.
ServiceEnvVars(bp, i) == ServicesOf(heap, bp)[i].EnvVars

\* bp.Services[i].Name = "z"
WriteServiceName ==
    \E via \in Holders :
        /\ CanWrite(via)
        /\ \E i \in 1..Len(ServicesOf(heap, Held(via))) :
            Written([heap EXCEPT !.svc[heap.bp[Held(via)].Services][i].Name = <<"z">>],
                    "service", via)

\* bp.Services[i].EnvVars[j] = Env(key, value)
WriteEnvVar ==
    \E via \in Holders :
        /\ CanWrite(via)
        /\ \E i \in 1..Len(ServicesOf(heap, Held(via))) :
            \E j \in 1..Len(Elems(heap, "env", ServiceEnvVars(Held(via), i))) :
                Written([heap EXCEPT !.env[ServiceEnvVars(Held(via), i)][j] = Env],
                        "envVar", via)

\* bp.Services[i].EnvVars[j].FromDatabase.Name = "z"
WriteReferenceName ==
    \E via \in Holders :
        /\ CanWrite(via)
        /\ \E i \in 1..Len(ServicesOf(heap, Held(via))) :
            \E j \in 1..Len(Elems(heap, "env", ServiceEnvVars(Held(via), i))) :
                /\ heap.env[ServiceEnvVars(Held(via), i)][j].FromDatabase # NIL
                /\ Written([heap EXCEPT
                              !.fdb[heap.env[ServiceEnvVars(Held(via), i)][j].FromDatabase].Name
                                  = <<"z">>],
                           "reference", via)

\* bp.Databases[i].Name = "z"
WriteDatabaseName ==
    \E via \in Holders :
        /\ CanWrite(via)
        /\ \E i \in 1..Len(DatabasesOf(heap, Held(via))) :
            Written([heap EXCEPT !.db[heap.bp[Held(via)].Databases][i].Name = <<"z">>],
                    "database", via)

\* bp.EnvVarGroups[i].Name = "z"
WriteEnvVarGroupName ==
    \E via \in Holders :
        /\ CanWrite(via)
        /\ \E i \in 1..Len(EnvVarGroupsOf(heap, Held(via))) :
            Written([heap EXCEPT !.grp[heap.bp[Held(via)].EnvVarGroups][i].Name = <<"z">>],
                    "group", via)

\* The ReadReplicas slice of the i-th database of bp.
DatabaseReplicas(bp, i) == DatabasesOf(heap, bp)[i].ReadReplicas

\* bp.Databases[i].ReadReplicas[j].Name = "z"
WriteReplicaName ==
    \E via \in Holders :
        /\ CanWrite(via)
        /\ \E i \in 1..Len(DatabasesOf(heap, Held(via))) :
            \E j \in 1..Len(Elems(heap, "rep", DatabaseReplicas(Held(via), i))) :
                Written([heap EXCEPT !.rep[DatabaseReplicas(Held(via), i)][j].Name = <<"z">>],
                        "replica", via)

\* bp.Previews.Generation = the other PreviewGeneration
WritePreviews ==
    \E via \in Holders :
        /\ CanWrite(via)
        /\ heap.bp[Held(via)].Previews # NIL
        /\ Written([heap EXCEPT !.prev[heap.bp[Held(via)].Previews].Generation =
                                IF @ = "none" THEN "automatic" ELSE "none"],
                   "previews", via)

\* *bp.PreviewsExpireAfterDays = 7
WriteExpire ==
    \E via \in Holders :
        /\ CanWrite(via)
        /\ heap.bp[Held(via)].PreviewsExpireAfterDays # NIL
        /\ Written([heap EXCEPT !.exp[heap.bp[Held(via)].PreviewsExpireAfterDays] = 7],
                   "expire", via)

(***************************************************************************)
(* Resolving conflicts before a merge (README, "Avoid Naming Conflicts"):  *)
(* merged, err := MergeBlueprints(PrefixBlueprint(a, p),                   *)
(*                                PrefixBlueprint(b, q))                   *)
(***************************************************************************)
\* Names and prefixes chosen so that p + n can equal q + m.
ResolveNames == {<<"a">>, <<"b">>, <<"a", "b">>}
ResolvePrefixes == {<<"a">>, <<"b">>, <<"b", "a">>}

ResolveInputs ==
    {NoBlueprint} \cup
    {Description(sk, <<>>, <<>>, 0, FALSE) : sk \in Skeletons(ResolveNames)}

InitResolve ==
    \E d1 \in ResolveInputs, d2 \in ResolveInputs :
        StartAfter(NewArgument(EmptyHeap, d1), d2)

BasePrefixed(r, p) ==
    /\ heap' = r.h
    /\ base' = r.v
    /\ panicked' = r.panic
    /\ prefix' = p

\* base = PrefixBlueprint(base, p)
PrefixBase ==
    /\ pc = "ready"
    /\ \E p \in ResolvePrefixes :
          BasePrefixed(PrefixBlueprint(heap, base, p), p)
    /\ op' = "prefix"
    /\ pc' = "basePrefixed"
    /\ UNCHANGED <<third, separator, nameLists, overlay, overlayPrefix,
                   result, err, before, after, mut>>

OverlayPrefixed(r, q) ==
    /\ heap' = r.h
    /\ overlay' = r.v
    /\ panicked' = r.panic
    /\ overlayPrefix' = q

\* overlay = PrefixBlueprint(overlay, q), with another prefix
PrefixOverlay ==
    /\ pc = "basePrefixed"
    /\ \E q \in ResolvePrefixes \ {prefix} :
          OverlayPrefixed(PrefixBlueprint(heap, overlay, q), q)
    /\ pc' = "prefixed"
    /\ UNCHANGED <<third, separator, nameLists, base, op, prefix, result, err,
                   before, after, mut>>

\* result, err := MergeBlueprints(base, overlay), both prefixed
MergePrefixed ==
    /\ pc = "prefixed"
    /\ MergeReturned(MergeBlueprints(heap, base, overlay))
    /\ before' = heap
    /\ op' = "merge"
    /\ pc' = "returned"
    /\ UNCHANGED <<third, separator, nameLists, base, overlay, prefix,
                   overlayPrefix, panicked, mut>>

NextResolve ==
    \/ PrefixBase
    \/ PrefixOverlay
    \/ MergePrefixed

(***************************************************************************)
(* PrefixBlueprint called again on the Blueprint it was called on before.  *)
(***************************************************************************)
\* The most calls made on one Blueprint.
MaxCalls == 2

\* result = PrefixBlueprint(base, p), once more: before stays the heap as
\* it was ahead of the first call.
CallPrefixBlueprintAgain ==
    /\ pc \in {"returned", "again"}
    /\ op = "prefix"
    /\ Len(heap.bp) - Len(before.bp) < MaxCalls
    /\ \E p \in Prefixes : PrefixReturned(PrefixBlueprint(heap, base, p), p)
    /\ pc' = "again"
    /\ UNCHANGED <<third, separator, nameLists, base, overlay, op,
                   overlayPrefix, err, before, mut>>

NextRepeat ==
    \/ CallPrefixBlueprint
    \/ CallPrefixBlueprintAgain

(***************************************************************************)
(* ValidateBlueprint is given Blueprints written as literals, as the tests *)
(* do: &Blueprint{Services: []Service{{Name: .., Type: .., Runtime: ..}}}  *)
(***************************************************************************)
\* The most services of a validated Blueprint.
MaxValidated == 3

\* The most services, databases and groups of one together.
MaxLiteral == 4

ValidatedNames == {<<>>, <<"a">>, <<"b">>}

\* Services: with or without a type, with or without a runtime.
ValidatedServices ==
    [Name : ValidatedNames, Type : {"", "web", "keyvalue"},
     Runtime : {<<>>, <<"node">>}, EnvVars : {NIL}]
    \ [Name : ValidatedNames, Type : {"keyvalue"}, Runtime : {<<"node">>},
       EnvVars : {NIL}]

ValidatedDatabases == [Name : {<<>>, <<"a">>}, ReadReplicas : {NIL}]
ValidatedEnvVarGroups == [Name : {<<>>, <<"a">>}, EnvVars : {NIL}]

\* The literal's slices: a slice literal with no element is left out (nil).
LiteralField(f, k, field, xs) ==
    IF xs = <<>> THEN f ELSE AllocField(f, k, xs, field)

Literal(h, svcs, dbs, grps) ==
    LiteralField(
        LiteralField(
            LiteralField(NewFrame(h), "svc", "Services", svcs),
            "db", "Databases", dbs),
        "grp", "EnvVarGroups", grps)

InitValidate ==
    \/ Start(EmptyHeap, NIL, NIL)
    \/ \E svcs \in SeqsUpTo(ValidatedServices, MaxValidated),
          dbs \in SeqsUpTo(ValidatedDatabases, MaxValidated - 1),
          grps \in SeqsUpTo(ValidatedEnvVarGroups, MaxValidated - 1) :
            /\ Len(svcs) + Len(dbs) + Len(grps) <= MaxLiteral
            /\ StartWith(Literal(EmptyHeap, svcs, dbs, grps),
                      [h |-> Literal(EmptyHeap, svcs, dbs, grps).h, v |-> NIL])

\* errors := ValidateBlueprint(base)
CallValidateBlueprint ==
    /\ pc = "ready"
    /\ err' = ValidateBlueprint(heap, base)
    /\ before' = heap
    /\ after' = heap
    /\ op' = "validate"
    /\ pc' = "returned"
    /\ UNCHANGED <<third, heap, base, overlay, prefix, overlayPrefix,
                   separator, nameLists, result, panicked, mut>>

NextValidate == CallValidateBlueprint

(***************************************************************************)
(* GetExternalReferences is given Blueprints whose services and env groups *)
(* hold up to MaxReferences EnvVars, and is also called on what            *)
(* PrefixBlueprint returned for them.                                      *)
(***************************************************************************)
MaxReferences == 2

ReferenceNames == {<<"a">>, <<"b">>, <<"b", "a">>}

ReferenceInputs ==
    {NoBlueprint} \cup
    {Description(sk, envs, <<>>, 0, share) :
        sk \in Skeletons(ReferenceNames),
        envs \in SeqsUpTo(EnvDescs(ReferenceNames), MaxReferences),
        share \in BOOLEAN}

InitReferences ==
    \E d \in ReferenceInputs :
        StartWith(NewArgument(EmptyHeap, d),
                  [h |-> NewArgument(EmptyHeap, d).h, v |-> NIL])

\* services, databases, envGroups := GetExternalReferences(base)
CallGetExternalReferences ==
    /\ pc = "ready"
    /\ nameLists' \in GetExternalReferences(heap, base)
    /\ before' = heap
    /\ after' = heap
    /\ op' = "references"
    /\ pc' = "returned"
    /\ UNCHANGED <<third, heap, base, overlay, prefix, overlayPrefix,
                   separator, result, err, panicked, mut>>

\* services, databases, envGroups := GetExternalReferences(result), result
\* being what PrefixBlueprint returned
CallGetExternalReferencesOfResult ==
    /\ pc = "returned"
    /\ op = "prefix"
    /\ ~panicked
    /\ nameLists' \in GetExternalReferences(heap, result)
    /\ pc' = "listed"
    /\ UNCHANGED <<third, heap, base, overlay, op, prefix, overlayPrefix,
                   separator, result, err, panicked, before, after, mut>>

NextReferences ==
    \/ CallGetExternalReferences
    \/ CallPrefixBlueprint
    \/ CallGetExternalReferencesOfResult

(***************************************************************************)
(* Chained merges of three Blueprints, grouped to the left or to the       *)
(* right.                                                                  *)
(***************************************************************************)
\* The most services, databases and groups of a chained Blueprint together.
MaxChained == 1

ChainNames == {<<"a">>, <<"b">>, <<"c">>}

ChainSkeletons ==
    UNION {[1..ns -> ChainNames] \X [1..nd -> ChainNames]
                                  \X [1..ng -> ChainNames] :
              <<ns, nd, ng>> \in {t \in (0..MaxChained) \X (0..MaxChained)
                                                        \X (0..MaxChained) :
                                     t[1] + t[2] + t[3] <= MaxChained}}

ChainInputs ==
    {Description(sk, <<[kind |-> "db", name |-> <<"a">>]>>, <<<<"a">>>>,
                 previews, FALSE) :
        sk \in ChainSkeletons, previews \in 0..2}

\* The preview settings of the third Blueprint differ from the others'.
ThirdSettings(d) == [d EXCEPT !.generation = "automatic", !.days = 7]

InitThree(a, b, c) == StartOf(c.h, a.v, b.v, c.v)

InitThird(a, b, d3) == InitThree(a, b, NewArgument(b.h, d3))

InitSecond(a, d2, d3) == InitThird(a, NewArgument(a.h, d2), d3)

InitChain ==
    \E d1 \in ChainInputs, d2 \in ChainInputs, d3 \in ChainInputs :
        InitSecond(NewArgument(EmptyHeap, d1), OverlaySettings(d2),
                   ThirdSettings(d3))

\* ab, err := MergeBlueprints(base, overlay)
\* if err == nil { result, err = MergeBlueprints(ab, third) }
CallMergeBlueprintsLeft ==
    /\ pc = "ready"
    /\ MergeReturned(MergeLeft(heap, base, overlay, third))
    /\ before' = heap
    /\ op' = "mergeLeft"
    /\ pc' = "returned"
    /\ UNCHANGED <<third, base, overlay, prefix, overlayPrefix, separator,
                   nameLists, panicked, mut>>

\* bc, err := MergeBlueprints(overlay, third)
\* if err == nil { result, err = MergeBlueprints(base, bc) }
CallMergeBlueprintsRight ==
    /\ pc = "ready"
    /\ MergeReturned(MergeRight(heap, base, overlay, third))
    /\ before' = heap
    /\ op' = "mergeRight"
    /\ pc' = "returned"
    /\ UNCHANGED <<third, base, overlay, prefix, overlayPrefix, separator,
                   nameLists, panicked, mut>>

NextChain == CallMergeBlueprintsLeft \/ CallMergeBlueprintsRight

\* The separators given to PrefixBlueprintWithSeparator.
Separators == {<<>>, <<"-">>, <<"a">>}

\* result := PrefixBlueprintWithSeparator(base, p, sep)
CallPrefixBlueprintWithSeparator ==
    /\ pc = "ready"
    /\ \E p \in Prefixes, sep \in Separators :
          /\ PrefixReturned(PrefixBlueprintWithSeparator(heap, base, p, sep), p)
          /\ separator' = sep
    /\ before' = heap
    /\ op' = "prefixWithSeparator"
    /\ pc' = "returned"
    /\ UNCHANGED <<third, nameLists, base, overlay, overlayPrefix, err, mut>>

NextSeparator == CallPrefixBlueprintWithSeparator

NextPrefix == CallPrefixBlueprint

NextMerge ==
    \/ CallMergeBlueprints
    \/ WriteServiceName
    \/ WriteEnvVar
    \/ WriteReferenceName
    \/ WriteReplicaName
    \/ WritePreviews
    \/ WriteExpire

SpecPrefix == InitPrefix /\ [][NextPrefix]_vars
SpecMerge == InitMerge /\ [][NextMerge]_vars
NextCopy ==
    \/ CallCopyBlueprint
    \/ WriteServiceName
    \/ WriteDatabaseName
    \/ WriteEnvVarGroupName
    \/ WriteEnvVar
    \/ WriteReferenceName
    \/ WriteReplicaName
    \/ WritePreviews
    \/ WriteExpire

SpecCopy == InitPrefix /\ [][NextCopy]_vars
SpecSeparator == InitPrefix /\ [][NextSeparator]_vars
SpecValidate == InitValidate /\ [][NextValidate]_vars
SpecReferences == InitReferences /\ [][NextReferences]_vars
SpecChain == InitChain /\ [][NextChain]_vars
SpecRepeat == InitPrefix /\ [][NextRepeat]_vars
SpecResolve == InitResolve /\ [][NextResolve]_vars

(***************************************************************************)
(* Properties.  In is the argument as it was when the operation was        *)
(* called, Out the Blueprint the operation returned, both as values.       *)
(***************************************************************************)
In == ValueOf(before, base)
InOverlay == ValueOf(before, overlay)
Out == ValueOf(after, result)

\* PrefixBlueprint was called on a Blueprint, with a non-empty prefix, and
\* returned.
PrefixedAny == op = "prefix" /\ base # NIL /\ ~panicked
PrefixedNonEmpty == PrefixedAny /\ prefix # <<>>

\* MergeBlueprints was called on two Blueprints and returned a result.
MergedBoth == op = "merge" /\ base # NIL /\ overlay # NIL /\ err = <<>>

Kinds == {"svc", "db", "grp"}

\* The names a Blueprint value defines for a kind.
DefinedNames(v, kind) ==
    CASE kind = "svc" -> {v.Services[i].Name : i \in DOMAIN v.Services}
      [] kind = "db"  -> {v.Databases[i].Name : i \in DOMAIN v.Databases}
      [] OTHER        -> {v.EnvVarGroups[i].Name : i \in DOMAIN v.EnvVarGroups}

\* The EnvVar lists of a Blueprint value: its services', then its groups'.
HolderEnvVars(v) ==
    [i \in DOMAIN v.Services |-> v.Services[i].EnvVars]
    \o [i \in DOMAIN v.EnvVarGroups |-> v.EnvVarGroups[i].EnvVars]

\* The name an EnvVar value refers to for a kind: <<>> or <<name>>.
RefName(e, kind) ==
    CASE kind = "svc" -> IF e.FromService = <<>> THEN <<>>
                         ELSE <<e.FromService[1].Name>>
      [] kind = "db"  -> IF e.FromDatabase = <<>> THEN <<>>
                         ELSE <<e.FromDatabase[1].Name>>
      [] OTHER        -> e.FromGroup

\* The references of a Blueprint value: holder, position, kind.
Refs(v) ==
    {r \in (DOMAIN HolderEnvVars(v)) \X (1..MaxEnvVars) \X Kinds :
        /\ r[2] \in DOMAIN HolderEnvVars(v)[r[1]]
        /\ RefName(HolderEnvVars(v)[r[1]][r[2]], r[3]) # <<>>}

RefAt(v, r) == RefName(HolderEnvVars(v)[r[1]][r[2]], r[3])[1]

SameShape(v, w) ==
    /\ Len(v.Services) = Len(w.Services)
    /\ Len(v.Databases) = Len(w.Databases)
    /\ Len(v.EnvVarGroups) = Len(w.EnvVarGroups)
    /\ Refs(v) = Refs(w)

\* C1: MergeBlueprints(base, overlay), either argument possibly nil, returns
\* an error if and only if FindConflicts(base, overlay) is non-empty.
C1_ErrorIffConflicts ==
    op = "merge" =>
        ((err # <<>>) <=> (FindConflicts(before, base, overlay) # <<>>))

C1_Witness ==
    /\ op = "merge"
    /\ err # <<>>
    /\ FindConflicts(before, base, overlay) # <<>>

\* C2: after PrefixBlueprint(d, p) returns, the input d is structurally
\* unchanged in every field compared with a snapshot taken before the call
\* (entity names, the reference names of every EnvVar, replica names).
C2_InputUnchanged ==
    op = "prefix" => ValueOf(after, base) = ValueOf(before, base)

\* C3: after a successful MergeBlueprints(base, overlay) a later change made
\* through the result leaves base and overlay structurally unchanged, and a
\* later change made through base or overlay leaves the result unchanged.
C3_NoSharedStructure ==
    pc = "written" =>
        /\ mut[2] = "result" =>
              /\ ValueOf(heap, base) = ValueOf(after, base)
              /\ ValueOf(heap, overlay) = ValueOf(after, overlay)
        /\ mut[2] # "result" => ValueOf(heap, result) = ValueOf(after, result)

\* C4: PrefixBlueprint(d, p) with non-empty p rewrites every EnvVar
\* reference, in services and env groups alike, whose name is defined in d
\* among entities of the same kind, to p + that name.
C4_InternalReferencesRewritten ==
    PrefixedNonEmpty =>
        /\ SameShape(In, Out)
        /\ \A r \in Refs(In) :
              RefAt(In, r) \in DefinedNames(In, r[3])
                  => RefAt(Out, r) = prefix \o RefAt(In, r)

\* C5: every EnvVar reference of d whose name is not defined in d among
\* entities of the same kind (even if d defines it under another kind) has
\* the identical name in PrefixBlueprint(d, p), for every prefix p.
C5_ExternalReferencesKept ==
    PrefixedAny =>
        /\ SameShape(In, Out)
        /\ \A r \in Refs(In) :
              RefAt(In, r) \notin DefinedNames(In, r[3])
                  => RefAt(Out, r) = RefAt(In, r)

\* A reference to a name that d defines only under another kind was kept.
C5_Witness ==
    /\ PrefixedNonEmpty
    /\ \E r \in Refs(In) :
          /\ RefAt(In, r) \notin DefinedNames(In, r[3])
          /\ \E k \in Kinds \ {r[3]} : RefAt(In, r) \in DefinedNames(In, k)
          /\ RefAt(Out, r) = RefAt(In, r)

\* C6: for non-empty p and every d (also one with duplicate names), the
\* i-th service, database and env group of PrefixBlueprint(d, p) is named
\* exactly p + the name of the i-th service, database and env group of d.
C6_EveryNamePrefixed ==
    PrefixedNonEmpty =>
        /\ SameShape(In, Out)
        /\ \A i \in DOMAIN In.Services :
              Out.Services[i].Name = prefix \o In.Services[i].Name
        /\ \A i \in DOMAIN In.Databases :
              Out.Databases[i].Name = prefix \o In.Databases[i].Name
        /\ \A i \in DOMAIN In.EnvVarGroups :
              Out.EnvVarGroups[i].Name = prefix \o In.EnvVarGroups[i].Name

\* Two entities of one kind with the same name were prefixed.
C6_Witness ==
    /\ PrefixedNonEmpty
    /\ Len(In.Databases) = 2
    /\ In.Databases[1].Name = In.Databases[2].Name
    /\ Out.Databases[2].Name = prefix \o In.Databases[2].Name

\* The replica name the rule gives: the leading n replaced by p + n.
ReplicaRenamed(replica, n, p) ==
    IF HasPrefix(replica, n)
    THEN p \o n \o SubSeq(replica, Len(n) + 1, Len(replica))
    ELSE replica

\* C7: for every database of d with pre-rename name N, PrefixBlueprint(d, p)
\* with non-empty p gives a replica whose name begins with N the name with
\* the leading N replaced by p + N, and leaves every other replica's name.
C7_ReplicasFollowDatabase ==
    PrefixedNonEmpty =>
        \A i \in DOMAIN In.Databases :
            /\ Len(Out.Databases[i].ReadReplicas) = Len(In.Databases[i].ReadReplicas)
            /\ \A j \in DOMAIN In.Databases[i].ReadReplicas :
                  Out.Databases[i].ReadReplicas[j].Name =
                      ReplicaRenamed(In.Databases[i].ReadReplicas[j].Name,
                                     In.Databases[i].Name, prefix)

\* C8: when MergeBlueprints succeeds with both inputs non-nil, each of the
\* result's three collections is base's entries in their order followed by
\* overlay's entries in their order.
C8_BaseThenOverlay ==
    MergedBoth =>
        /\ Out.Services = In.Services \o InOverlay.Services
        /\ Out.Databases = In.Databases \o InOverlay.Databases
        /\ Out.EnvVarGroups = In.EnvVarGroups \o InOverlay.EnvVarGroups

\* Both inputs brought a service, with different names.
C8_Witness ==
    /\ MergedBoth
    /\ Len(In.Services) = 1
    /\ Len(InOverlay.Services) = 1
    /\ Len(Out.Services) = 2
    /\ Out.Services[1].Name # Out.Services[2].Name

\* C9: when FindConflicts(base, overlay) is non-empty, MergeBlueprints
\* returns a nil result, builds no Blueprint, and returns an error whose
\* message names every conflict that FindConflicts reports.
C9_ConflictsAllNamed ==
    (op = "merge" /\ FindConflicts(before, base, overlay) # <<>>) =>
        /\ result = NIL
        /\ after = before
        /\ err # <<>>
        /\ \A i \in DOMAIN FindConflicts(before, base, overlay) :
              Contains(err[1], FindConflicts(before, base, overlay)[i])

\* Two different conflicts were found.
C9_Witness ==
    /\ op = "merge"
    /\ Len(FindConflicts(before, base, overlay)) = 2
    /\ FindConflicts(before, base, overlay)[1]
           # FindConflicts(before, base, overlay)[2]
    /\ result = NIL

\* C10: MergeBlueprints never mutates its arguments: after it returns, with
\* a result or with a conflict error, base and overlay are structurally
\* equal to their snapshots from before the call.
C10_ArgumentsUnchanged ==
    op = "merge" =>
        /\ ValueOf(after, base) = ValueOf(before, base)
        /\ ValueOf(after, overlay) = ValueOf(before, overlay)

\* A merge of two Blueprints that both hold services succeeded.
C10_Witness ==
    /\ MergedBoth
    /\ In.Services # <<>>
    /\ InOverlay.Services # <<>>
    /\ In.Databases # <<>>
    /\ ValueOf(after, base) = In

\* C11: in a successful merge of two non-nil blueprints each of the two
\* singleton settings is decided on its own: the result holds overlay's
\* value when overlay sets it, and base's value (possibly unset) otherwise.
C11_OverlaySettingsWin ==
    MergedBoth =>
        /\ Out.Previews =
              IF InOverlay.Previews # <<>> THEN InOverlay.Previews
              ELSE In.Previews
        /\ Out.PreviewsExpireAfterDays =
              IF InOverlay.PreviewsExpireAfterDays # <<>>
              THEN InOverlay.PreviewsExpireAfterDays
              ELSE In.PreviewsExpireAfterDays

\* Base sets both settings, overlay the preview policy only: the result
\* has overlay's policy and base's expiry.
C11_Witness ==
    /\ MergedBoth
    /\ In.Previews # <<>>
    /\ In.PreviewsExpireAfterDays # <<>>
    /\ InOverlay.Previews # <<>>
    /\ InOverlay.PreviewsExpireAfterDays = <<>>
    /\ Out.Previews # In.Previews
    /\ Out.PreviewsExpireAfterDays = In.PreviewsExpireAfterDays

\* The value of an empty Blueprint.
EmptyValue ==
    [Services |-> <<>>, Databases |-> <<>>, EnvVarGroups |-> <<>>,
     Previews |-> <<>>, PreviewsExpireAfterDays |-> <<>>]

\* C12: MergeBlueprints with both inputs nil returns an empty blueprint and
\* no error; with exactly one input nil it returns, without error, a
\* blueprint structurally equal to the other input, duplicates included.
C12_NilArguments ==
    (op = "merge" /\ (base = NIL \/ overlay = NIL)) =>
        /\ err = <<>>
        /\ result # NIL
        /\ Out = IF base # NIL THEN In
                 ELSE IF overlay # NIL THEN InOverlay
                 ELSE EmptyValue

\* The only Blueprint given holds two services of one name and both settings.
C12_Witness ==
    /\ op = "merge"
    /\ base = NIL
    /\ overlay # NIL
    /\ Len(InOverlay.Services) = 2
    /\ InOverlay.Services[1].Name = InOverlay.Services[2].Name
    /\ InOverlay.PreviewsExpireAfterDays # <<>>
    /\ Out = InOverlay

\* What FindConflicts returns for the arguments as they were given.
Conflicts == FindConflicts(before, base, overlay)

\* The literal text of the conflict message of a kind.
KindText(kind) ==
    CASE kind = "svc" -> "service name conflict: "
      [] kind = "db"  -> "database name conflict: "
      [] OTHER        -> "environment group name conflict: "

\* The names of a Blueprint value's entries of a kind, in their order.
NameList(v, kind) ==
    CASE kind = "svc" -> [i \in DOMAIN v.Services |-> v.Services[i].Name]
      [] kind = "db"  -> [i \in DOMAIN v.Databases |-> v.Databases[i].Name]
      [] OTHER        -> [i \in DOMAIN v.EnvVarGroups |-> v.EnvVarGroups[i].Name]

\* The positions of overlay's entries of a kind whose name base has in
\* the same kind.
Colliding(kind) ==
    {i \in DOMAIN NameList(InOverlay, kind) :
        NameList(InOverlay, kind)[i] \in DefinedNames(In, kind)}

AnyName == UNION {DefinedNames(In, k) \cup DefinedNames(InOverlay, k) : k \in Kinds}

\* C13: FindConflicts reports a conflict exactly for names that occur in
\* both blueprints within the same kind, one entry per colliding overlay
\* entry; a name shared across kinds is never reported, and a nil base or
\* nil overlay yields no conflicts.
C13_SameKindConflictsOnly ==
    IF base = NIL \/ overlay = NIL THEN Conflicts = <<>>
    ELSE /\ Len(Conflicts) = Cardinality(Colliding("svc"))
                             + Cardinality(Colliding("db"))
                             + Cardinality(Colliding("grp"))
         /\ \A k \in Kinds, n \in AnyName :
               (\E i \in DOMAIN Conflicts : Conflicts[i] = <<KindText(k)>> \o n)
               <=> (n \in DefinedNames(In, k) /\ n \in DefinedNames(InOverlay, k))
         /\ \A i \in DOMAIN Conflicts :
               \E k \in Kinds, n \in AnyName : Conflicts[i] = <<KindText(k)>> \o n

\* One name collides within a kind while another is shared across kinds
\* only, and the merge reported the one conflict.
C13_Witness ==
    /\ op = "merge"
    /\ base # NIL /\ overlay # NIL
    /\ Len(Conflicts) = 1
    /\ err # <<>>
    /\ \E k1, k2 \in Kinds, n \in AnyName :
          /\ k1 # k2
          /\ n \in DefinedNames(In, k1)
          /\ n \in DefinedNames(InOverlay, k2)
          /\ n \notin DefinedNames(In, k2)
          /\ n \notin DefinedNames(InOverlay, k1)

\* The messages for the colliding entries of a kind, in overlay's order.
CollidingMessages(kind) ==
    [i \in DOMAIN SelectSeq(NameList(InOverlay, kind),
                            LAMBDA n : n \in DefinedNames(In, kind)) |->
        <<KindText(kind)>>
        \o SelectSeq(NameList(InOverlay, kind),
                     LAMBDA n : n \in DefinedNames(In, kind))[i]]

\* C14: the conflict list is ordered: all service conflicts, then all
\* database conflicts, then all env-group conflicts, and within a kind in
\* the order in which the colliding entries appear in overlay.
C14_ConflictOrder ==
    (base # NIL /\ overlay # NIL) =>
        Conflicts = CollidingMessages("svc") \o CollidingMessages("db")
                    \o CollidingMessages("grp")

\* Overlay's two entries of one kind collide, under different names.
C14_Witness ==
    /\ op = "merge"
    /\ base # NIL /\ overlay # NIL
    /\ \E k \in Kinds :
          /\ Len(NameList(InOverlay, k)) = 2
          /\ NameList(InOverlay, k)[1] # NameList(InOverlay, k)[2]
          /\ Conflicts = <<<<KindText(k)>> \o NameList(InOverlay, k)[1],
                           <<KindText(k)>> \o NameList(InOverlay, k)[2]>>

\* Both arguments were prefixed, with different non-empty prefixes, and
\* then merged.
Resolved ==
    /\ op = "merge"
    /\ prefix # <<>>
    /\ overlayPrefix # <<>>
    /\ prefix # overlayPrefix

\* C15: if a and b are prefixed with two different non-empty prefixes p and
\* q, FindConflicts of the prefixed blueprints is empty and their merge
\* succeeds, whatever names a and b contain.
C15_DifferentPrefixesResolve ==
    Resolved => (Conflicts = <<>> /\ err = <<>> /\ result # NIL)

\* C15, amended: the same when neither prefix is a prefix of the other.
C15_UnrelatedPrefixesResolve ==
    (Resolved /\ ~HasPrefix(prefix, overlayPrefix)
              /\ ~HasPrefix(overlayPrefix, prefix))
        => (Conflicts = <<>> /\ err = <<>> /\ result # NIL)

\* Two Blueprints that define the same names were prefixed with unrelated
\* prefixes and merged.
C15_Witness ==
    /\ Resolved
    /\ ~HasPrefix(prefix, overlayPrefix)
    /\ ~HasPrefix(overlayPrefix, prefix)
    /\ base # NIL /\ overlay # NIL
    /\ Len(In.Services) = 2
    /\ [i \in 1..2 |-> SubSeq(In.Services[i].Name, Len(prefix) + 1,
                              Len(In.Services[i].Name))]
       = [i \in DOMAIN InOverlay.Services |->
             SubSeq(InOverlay.Services[i].Name, Len(overlayPrefix) + 1,
                    Len(InOverlay.Services[i].Name))]
    /\ Len(Out.Services) = 4

\* What PrefixBlueprint(base, prefix) returns on the heap as it was before
\* any call, as a value.
FreshValue(r) == ValueOf(r.h, r.v)
FreshOutcome == FreshValue(PrefixBlueprint(before, base, prefix))

\* C16: for any sequence of PrefixBlueprint calls on the same Blueprint d,
\* every call returns a result structurally equal to what a call with that
\* prefix returns on an untouched copy of d's original value.
C16_EarlierCallsDoNotMatter ==
    (op = "prefix" /\ ~panicked) => Out = FreshOutcome

\* The caller wrote `what` through `via` after CopyBlueprint returned.
WroteAfterCopy(whats, via) ==
    /\ op = "copy"
    /\ pc = "written"
    /\ mut[1] \in whats
    /\ mut[2] = via

\* C17: CopyBlueprint is a deep copy: after c = CopyBlueprint(d), changing a
\* nested part of c (an EnvVar entry, the name inside a reference, a
\* read-replica name) leaves d structurally unchanged, and vice versa.
C17_DeepCopy ==
    /\ WroteAfterCopy({"envVar", "reference", "replica"}, "result")
          => ValueOf(heap, base) = ValueOf(after, base)
    /\ WroteAfterCopy({"envVar", "reference", "replica"}, "base")
          => ValueOf(heap, result) = ValueOf(after, result)

\* C18: CopyBlueprint(d) returns a blueprint structurally equal to d (an
\* empty one when d is nil), and assigning a new Name to a service, database
\* or env-group element of the copy, or changing the copy's preview setting
\* or preview expiry, leaves d unchanged.
C18_CopyEqualAndOwnEntities ==
    op = "copy" =>
        /\ result # NIL
        /\ Out = IF base = NIL THEN EmptyValue ELSE In
        /\ WroteAfterCopy({"service", "database", "group", "previews", "expire"},
                          "result")
              => ValueOf(heap, base) = In

\* A database of the copy was renamed: the copy changed, d did not.
C18_Witness ==
    /\ WroteAfterCopy({"database"}, "result")
    /\ ValueOf(heap, result) # Out
    /\ ValueOf(heap, base) = In
    /\ In.Previews # <<>>

\* C19: CopyBlueprint is idempotent up to structural equality: for every d
\* (nil included), CopyBlueprint(CopyBlueprint(d)) equals CopyBlueprint(d).
C19_CopyIdempotent ==
    (op = "copy" /\ pc = "returned") =>
        FreshValue(CopyBlueprint(after, result)) = Out

\* The copy of a Blueprint with two databases, references and settings.
C19_Witness ==
    /\ op = "copy" /\ pc = "returned"
    /\ base # NIL
    /\ Len(Out.Databases) = 2
    /\ Out.PreviewsExpireAfterDays # <<>>
    /\ FreshValue(CopyBlueprint(after, result)) = In

\* C20: PrefixBlueprint(d, "") returns a blueprint structurally equal to d
\* with no name or reference changed, and PrefixBlueprint(nil, p) returns an
\* empty, non-nil blueprint for every p; neither case returns nil.
C20_NothingToPrefix ==
    (op = "prefix" /\ (prefix = <<>> \/ base = NIL)) =>
        /\ ~panicked
        /\ result # NIL
        /\ Out = IF base = NIL THEN EmptyValue ELSE In

\* A nil Blueprint was prefixed with a non-empty prefix.
C20_Witness ==
    /\ op = "prefix"
    /\ base = NIL
    /\ prefix # <<>>
    /\ result # NIL
    /\ Out = EmptyValue

\* C21: PrefixBlueprintWithSeparator(d, prefix, sep) equals
\* PrefixBlueprint(d, prefix + sep) for non-empty sep and
\* PrefixBlueprint(d, prefix + "-") for the empty sep.
C21_SeparatorDelegates ==
    op = "prefixWithSeparator" =>
        /\ ~panicked
        /\ Out = FreshValue(PrefixBlueprint(before, base,
                     prefix \o (IF separator = <<>> THEN <<"-">> ELSE separator)))

\* Empty prefix and empty separator: the names are prefixed with "-".
C21_Witness ==
    /\ op = "prefixWithSeparator"
    /\ prefix = <<>>
    /\ separator = <<>>
    /\ base # NIL
    /\ Len(In.Databases) = 1
    /\ Out.Databases[1].Name = <<"-">> \o In.Databases[1].Name

\* ValidateBlueprint was called on a Blueprint and returned.
Validated == op = "validate" /\ base # NIL

DuplicateText(kind) ==
    CASE kind = "svc" -> "duplicate service name: "
      [] kind = "db"  -> "duplicate database name: "
      [] OTHER        -> "duplicate environment group name: "

\* How many entries of a list are x.
Count(xs, x) == Cardinality({i \in DOMAIN xs : xs[i] = x})

\* C22: ValidateBlueprint reports a repeated name once per occurrence
\* after its first: when a name occurs k >= 2 times among the services,
\* the returned list has exactly k - 1 entries "duplicate service name:
\* <name>", whatever else the Blueprint lacks; likewise for databases and
\* for environment groups.
C22_DuplicatesPerOccurrence ==
    Validated =>
        \A kind \in Kinds : \A n \in DefinedNames(In, kind) :
            Count(NameList(In, kind), n) >= 2 =>
                Count(err, <<DuplicateText(kind)>> \o n)
                    = Count(NameList(In, kind), n) - 1

\* A name held by three services, two of which also lack a type.
C22_Witness ==
    /\ Validated
    /\ Count(NameList(In, "svc"), <<"a">>) = 3
    /\ Count(err, <<"duplicate service name: ", "a">>) = 2
    /\ Count(err, <<"service ", "a", " missing type">>) = 2
    /\ Len(err) = 5

\* Nothing ValidateBlueprint looks for is wrong with a Blueprint value.
Valid(v) ==
    /\ \A kind \in Kinds :
        /\ \A i, j \in DOMAIN NameList(v, kind) :
            NameList(v, kind)[i] = NameList(v, kind)[j] => i = j
        /\ <<>> \notin DefinedNames(v, kind)
    /\ \A i \in DOMAIN v.Services :
        /\ v.Services[i].Type # ""
        /\ v.Services[i].Runtime = <<>> => v.Services[i].Type = "keyvalue"

RECURSIVE Flat(_, _)
Flat(xss, i) == IF i > Len(xss) THEN <<>> ELSE xss[i] \o Flat(xss, i + 1)

\* The duplicate-name messages of a kind: one for each entry whose name an
\* earlier entry has, in the entries' order.
Repeats(v, kind) ==
    LET ns == NameList(v, kind)
    IN Flat([i \in 1..Len(ns) |->
                IF \E j \in 1..(i - 1) : ns[j] = ns[i]
                THEN <<<<DuplicateText(kind)>> \o ns[i]>> ELSE <<>>], 1)

\* The messages about the services' fields, service by service.
Fields(v) ==
    LET ss == v.Services
    IN Flat([i \in 1..Len(ss) |->
            (IF ss[i].Name = <<>> THEN <<<<"service missing name">>>> ELSE <<>>)
            \o (IF ss[i].Type = ""
                THEN <<<<"service ">> \o ss[i].Name \o <<" missing type">>>>
                ELSE <<>>)
            \o (IF ss[i].Runtime = <<>> /\ ss[i].Type # "keyvalue"
                THEN <<<<"service ">> \o ss[i].Name \o <<" missing runtime">>>>
                ELSE <<>>)], 1)

\* The missing-name messages of the databases or of the groups.
Nameless(v, kind, text) ==
    LET ns == NameList(v, kind)
    IN Flat([i \in 1..Len(ns) |->
                IF ns[i] = <<>> THEN <<<<text>>>> ELSE <<>>], 1)

\* C25: ValidateBlueprint reports everything, in a fixed order: the
\* duplicate names of services, of databases, of environment groups, each
\* in the collection's order; then, service by service, missing name,
\* missing type, missing runtime; then the databases without a name, then
\* the groups without one.  A service with neither type nor runtime gets
\* both messages.
C25_AllDefectsInOrder ==
    Validated =>
        err = Repeats(In, "svc") \o Repeats(In, "db") \o Repeats(In, "grp")
              \o Fields(In)
              \o Nameless(In, "db", "database missing name")
              \o Nameless(In, "grp", "environment group missing name")

\* A service with neither type nor runtime after a duplicate, before a
\* nameless database.
C25_Witness ==
    /\ Validated
    /\ \E i \in DOMAIN In.Services :
        In.Services[i].Type = "" /\ In.Services[i].Runtime = <<>>
        /\ In.Services[i].Name = <<"a">>
    /\ \E i \in 1..(Len(err) - 3) :
        /\ err[i] = <<"duplicate service name: ", "a">>
        /\ err[i + 1] = <<"service ", "a", " missing type">>
        /\ err[i + 2] = <<"service ", "a", " missing runtime">>
        /\ err[i + 3] = <<"database missing name">>

KindIndex(kind) == CASE kind = "svc" -> 1 [] kind = "db" -> 2 [] OTHER -> 3

\* The names a Blueprint value's EnvVars refer to for a kind.
Referenced(v, kind) ==
    {RefName(HolderEnvVars(v)[i][j], kind)[1] :
        <<i, j>> \in {t \in (DOMAIN HolderEnvVars(v)) \X (1..MaxReferences) :
                        /\ t[2] \in DOMAIN HolderEnvVars(v)[t[1]]
                        /\ RefName(HolderEnvVars(v)[t[1]][t[2]], kind) # <<>>}}

\* The names of a kind a Blueprint value refers to and does not define.
External(v, kind) == Referenced(v, kind) \ DefinedNames(v, kind)

\* C24: for each kind, GetExternalReferences returns exactly the names
\* that some EnvVar of a service or env group refers to for that kind and
\* that no entity of that kind has, each name once; for nil it returns
\* three empty lists.
C24_ExternalReferences ==
    op = "references" =>
        IF base = NIL THEN nameLists = <<<<>>, <<>>, <<>>>>
        ELSE \A kind \in Kinds :
                /\ Range(nameLists[KindIndex(kind)]) = External(In, kind)
                /\ \A i, j \in DOMAIN nameLists[KindIndex(kind)] :
                    nameLists[KindIndex(kind)][i] = nameLists[KindIndex(kind)][j]
                        => i = j

\* A service refers to two services, one of them defined, and to no
\* database; a database has the name of the undefined one.
C24_Witness ==
    /\ op = "references"
    /\ base # NIL
    /\ Len(In.Services) = 1 /\ Len(In.Databases) = 1
    /\ In.Services[1].Name = <<"a">> /\ In.Databases[1].Name = <<"b">>
    /\ Referenced(In, "svc") = {<<"a">>, <<"b">>}
    /\ nameLists = <<<<<<"b">>>>, <<>>, <<>>>>

\* GetExternalReferences was called on what PrefixBlueprint returned for
\* a Blueprint and a non-empty prefix.
ListedPrefixed == pc = "listed" /\ base # NIL /\ prefix # <<>>

\* C26 as stated: the external references of PrefixBlueprint(d, p), p not
\* empty, are those of d, kind by kind.
C26_ClassificationKept ==
    ListedPrefixed =>
        \A kind \in Kinds :
            Range(nameLists[KindIndex(kind)]) = External(In, kind)

\* No external reference of d is p followed by a name d defines for the
\* same kind.
NoCapture(v, p) ==
    \A kind \in Kinds : \A n \in DefinedNames(v, kind) :
        p \o n \notin External(v, kind)

\* C26, amended: when no external reference of d is p followed by the
\* name of an entity of the same kind defined in d, the external
\* references of PrefixBlueprint(d, p), p not empty, are those of d, kind
\* by kind.
C26_ClassificationKeptUnlessCaptured ==
    ListedPrefixed /\ NoCapture(In, prefix) =>
        \A kind \in Kinds :
            Range(nameLists[KindIndex(kind)]) = External(In, kind)

\* Service "a" refers to itself and to an undefined service "b"; after
\* prefixing with "b" the first reference is "ba" and "b" is still the
\* only external one.
C26_Witness ==
    /\ ListedPrefixed
    /\ NoCapture(In, prefix)
    /\ prefix = <<"b">>
    /\ DefinedNames(In, "svc") = {<<"a">>}
    /\ Referenced(In, "svc") = {<<"a">>, <<"b">>}
    /\ Referenced(Out, "svc") = {<<"b", "a">>, <<"b">>}
    /\ nameLists = <<<<<<"b">>>>, <<>>, <<>>>>

\* C27: PrefixBlueprint never fails at run time: whatever the names of the
\* databases and of their replicas and whatever the prefix, every database
\* name is at least as long as the prefix when the replica loop slices it,
\* so db.Name[:len(db.Name)-len(prefix)] is within bounds.
C27_NeverFails ==
    op = "prefix" =>
        /\ ~panicked
        /\ base # NIL =>
            \A i \in DOMAIN Out.Databases :
                Len(Out.Databases[i].Name) >= Len(prefix)

\* Two databases without a name, each with a replica, and a prefix of two
\* characters.
C27_Witness ==
    /\ PrefixedAny
    /\ prefix = <<"b", "a">>
    /\ Len(In.Databases) = 2
    /\ \A i \in 1..2 :
        /\ In.Databases[i].Name = <<>>
        /\ Len(In.Databases[i].ReadReplicas) = 1
        /\ Out.Databases[i].Name = <<"b", "a">>

\* No name is held twice within a kind of a Blueprint value.
UniqueNames(v) ==
    \A kind \in Kinds : \A i, j \in DOMAIN NameList(v, kind) :
        NameList(v, kind)[i] = NameList(v, kind)[j] => i = j

DuplicateTexts == {DuplicateText(kind) : kind \in Kinds}

\* C28: when base and overlay each have unique names within services,
\* within databases and within env groups and MergeBlueprints succeeds,
\* the result has unique names within each kind, and ValidateBlueprint
\* reports no duplicate name for it.
C28_MergeKeepsNamesUnique ==
    (MergedBoth /\ UniqueNames(In) /\ UniqueNames(InOverlay)) =>
        /\ UniqueNames(Out)
        /\ \A i \in DOMAIN ValidateBlueprint(after, result) :
            ValidateBlueprint(after, result)[i][1] \notin DuplicateTexts

\* Base has service "a" and database "b", overlay service "b" and
\* database "a".
C28_Witness ==
    /\ MergedBoth
    /\ NameList(In, "svc") = <<<<"a">>>> /\ NameList(In, "db") = <<<<"b">>>>
    /\ NameList(InOverlay, "svc") = <<<<"b">>>>
    /\ NameList(InOverlay, "db") = <<<<"a">>>>
    /\ NameList(Out, "svc") = <<<<"a">>, <<"b">>>>
    /\ NameList(Out, "db") = <<<<"b">>, <<"a">>>>
    /\ ValidateBlueprint(after, result) = <<>>

\* An EnvVar value without the names it refers to: its key, its literal
\* value, and for each kind whether it refers to one, with the property
\* and type the reference carries.
EnvVarButNames(e) ==
    [Key |-> e.Key, Value |-> e.Value,
     FromDatabase |-> [i \in DOMAIN e.FromDatabase |-> e.FromDatabase[i].Property],
     FromService |-> [i \in DOMAIN e.FromService |-> e.FromService[i].Type],
     FromGroup |-> Len(e.FromGroup)]

EnvVarsButNames(es) == [i \in DOMAIN es |-> EnvVarButNames(es[i])]

\* A Blueprint value without its names.
ButNames(v) ==
    [Services |-> [i \in DOMAIN v.Services |->
                     [Type |-> v.Services[i].Type,
                      Runtime |-> v.Services[i].Runtime,
                      EnvVars |-> EnvVarsButNames(v.Services[i].EnvVars)]],
     Databases |-> [i \in DOMAIN v.Databases |->
                      Len(v.Databases[i].ReadReplicas)],
     EnvVarGroups |-> [i \in DOMAIN v.EnvVarGroups |->
                         EnvVarsButNames(v.EnvVarGroups[i].EnvVars)],
     Previews |-> v.Previews,
     PreviewsExpireAfterDays |-> v.PreviewsExpireAfterDays]

\* C29: PrefixBlueprint changes nothing but names: the result has as many
\* services, databases and env groups as d, in the same order, each with
\* the type, runtime, EnvVar keys, literal values, reference properties
\* and kinds it has in d, as many EnvVars and read replicas, and d's
\* preview policy and expiry.
C29_OnlyNamesChange == PrefixedAny => ButNames(Out) = ButNames(In)

\* A service with a database reference, a database with a replica and
\* preview settings, all renamed.
C29_Witness ==
    /\ PrefixedNonEmpty
    /\ Len(In.Services) = 1 /\ Len(In.Databases) = 1
    /\ Len(In.Services[1].EnvVars) = 1
    /\ In.Services[1].EnvVars[1].FromDatabase # <<>>
    /\ Len(In.Databases[1].ReadReplicas) = 1
    /\ In.Previews # <<>> /\ In.PreviewsExpireAfterDays # <<>>
    /\ Out.Services[1].Name # In.Services[1].Name
    /\ Out.Services[1].EnvVars[1].FromDatabase[1].Name
           # In.Services[1].EnvVars[1].FromDatabase[1].Name
    /\ Out.Databases[1].ReadReplicas # In.Databases[1].ReadReplicas

\* The third Blueprint as it was before the call.
InThird == ValueOf(before, third)

\* The last of three settings that is set.
LastSet(x, y, z) == IF z # <<>> THEN z ELSE IF y # <<>> THEN y ELSE x

\* What a chained merge of the three Blueprints is to be.
Chained ==
    [Services |-> In.Services \o InOverlay.Services \o InThird.Services,
     Databases |-> In.Databases \o InOverlay.Databases \o InThird.Databases,
     EnvVarGroups |-> In.EnvVarGroups \o InOverlay.EnvVarGroups
                      \o InThird.EnvVarGroups,
     Previews |-> LastSet(In.Previews, InOverlay.Previews, InThird.Previews),
     PreviewsExpireAfterDays |->
        LastSet(In.PreviewsExpireAfterDays, InOverlay.PreviewsExpireAfterDays,
                InThird.PreviewsExpireAfterDays)]

\* The outcome of the chain grouped the other way, from the same heap.
OtherGrouping ==
    IF op = "mergeLeft" THEN MergeRight(before, base, overlay, third)
    ELSE MergeLeft(before, base, overlay, third)

====
